---------------------------- MODULE Spec2Model ----------------------------
(***************************************************************************)
(* The deep-research agent launcher: the two run.py variants (the          *)
(* singleton variant examples/open_deep_research/run.py and the logging    *)
(* variant run.py) and the Gradio shell app.py that imports the logging    *)
(* variant.                                                                 *)
(*                                                                         *)
(* Callers are threads.  Every statement that reads or writes shared       *)
(* state (agent_instance, agent_logs, log_lock, os.environ, the executor)  *)
(* is one step, so that interleavings of the Python statements show.       *)
(***************************************************************************)
EXTENDS Integers, Sequences, FiniteSets, TLC

----------------------------------------------------------------------------
(* Bounds of the model *)

\* callers (threads) of the command-line specifications
NumThreads == 2
\* calls of main made in all
MaxCalls == 3
\* callers (threads) of the Gradio shell
NumUsers == 2
\* UI operations performed in all
MaxOps == 3
\* log records emitted in all once the module is imported
MaxEmit == 2
\* invocations submitted to one worker pool
NumTasks == 5

(* Program constants *)

\* ThreadPoolExecutor(max_workers=4)
max_workers == 4

----------------------------------------------------------------------------
(* Values *)

ModelIds == {"o1", "gpt-4o"}
\* the three variables set_keys writes
EnvVars == {"OPENAI_API_KEY", "SERPER_API_KEY", "HF_TOKEN"}
\* "" stands for an unset variable as well as an empty one: os.getenv gives
\* None or "", and `if hf_token:` takes both for missing
Answers == {"4"}
RunErrors == {"ModelError", "NetworkError"}
BuildErrors == {"ValueError"}
ConnectErrors == {"ToolConnectionError"}

NoResult == [kind |-> "none", value |-> ""]
NoFuture == [state |-> "NONE", kind |-> "none", value |-> ""]
\* every variable of os.environ the model holds: SERPAPI_API_KEY is read
\* for BROWSER_CONFIG and is none of the three set_keys writes
AllVars == EnvVars \cup {"SERPAPI_API_KEY"}
NoKeys == [v \in AllVars |-> ""]

ConfirmMsg ==
    "API keys have been updated successfully! Please restart the agent for changes to take effect."

VARIABLES
    variant,        \* which run.py module the process imported
    environ,        \* os.environ, restricted to AllVars
    started,        \* module import: "import", "ready", "failed"
    hf_token,       \* module-level hf_token
    logged_in,      \* token login() was last called with ("" = never)
    net_calls,      \* kinds of network calls attempted so far
    agent_instance, \* the global of the singleton variant (0 = None)
    objects,        \* every manager agent constructed so far
    conns,          \* every tool-server connection opened so far
    pc,             \* each caller's position
    op,             \* the operation each caller is in
    arg,            \* model_id of the caller's create_agent call
    tc,             \* the caller's tool_collection connection (0 = none)
    manager_agent,  \* the caller's local manager_agent (0 = unbound)
    exc,            \* exception in flight in the caller ("" = none)
    agent,          \* handle create_agent returned to the caller (0 = none)
    calls,          \* operations started so far
    executor,       \* the executor each caller submits to
    work_queue,     \* work items not yet taken by a worker
    fut,            \* each caller's future
    outcome,        \* what the caller's agent.run did
    invocations,    \* agent.run calls made for the caller's current question
    answer,         \* the caller's local `answer` ("" = unbound)
    returned,       \* the operation that last returned normally to the caller
    printed,        \* what main printed for the caller
    raised,         \* exception that left the caller's operation
    first,          \* first handle assigned to agent_instance (0 = none yet)
    first_arg,      \* model_id of the call that made that assignment
    app_agent,      \* `agent` of build_app (0 = not built)
    agent_logs,     \* the list agent_logs
    log_lock,       \* holder of log_lock (0 = free)
    entry,          \* log_entry of the caller's emit
    emit_ret,       \* where the caller's emit returns to
    emitted,        \* records emitted once the module is imported
    recorded,       \* lines the caller's operation has appended so far
    logs,           \* logs get_answer returned to the caller
    status_box,     \* text of the status box
    last_keys,      \* arguments of the latest set_keys
    fresh           \* caller's create_agent call began after the latest set_keys

vars == <<variant, environ, started, hf_token, logged_in, net_calls,
          agent_instance, objects, conns, pc, op, arg, tc, manager_agent, exc,
          agent, calls, executor, work_queue, fut, outcome, invocations,
          answer, returned, printed, raised, first, first_arg, app_agent, agent_logs, log_lock,
          entry, emit_ret, emitted, recorded, logs, status_box, last_keys,
          fresh>>

moduleVars == <<variant, started, hf_token, logged_in>>
singletonVars == <<agent_instance, first, first_arg>>
createVars == <<objects, conns, arg, tc, manager_agent>>
poolVars == <<executor, work_queue, fut>>
runVars == <<outcome, invocations, answer>>
logVars == <<agent_logs, log_lock, entry, emit_ret, emitted, recorded>>
uiVars == <<app_agent, logs, status_box, last_keys, fresh>>

Callers == DOMAIN pc

----------------------------------------------------------------------------
(* logging.Formatter('%(asctime)s - %(levelname)s - %(message)s') *)

Record(level, msg) == [levelname |-> level, message |-> msg]

format(record) == <<"asctime", " - ", record.levelname, " - ", record.message>>

\* "\n".join(lines)
RECURSIVE join(_)
join(lines) ==
    IF lines = <<>> THEN <<>>
    ELSE IF Len(lines) = 1 THEN lines[1]
    ELSE lines[1] \o <<"\n">> \o join(Tail(lines))

----------------------------------------------------------------------------
(* Module import: load_dotenv, the HF_TOKEN check and login *)

\* the .env files load_dotenv(override=True) may find; "" = not in the file
DotenvFiles == {NoKeys, [NoKeys EXCEPT !["HF_TOKEN"] = "k1"]}

load_dotenv(env, file) == [v \in AllVars |-> IF file[v] # "" THEN file[v] ELSE env[v]]

\* the singleton variant's import with run.py's check: warn and go on
ImportSingleton_Warn ==
    /\ started = "import"
    /\ variant = "singleton"
    /\ \E file \in DotenvFiles :
         /\ environ' = load_dotenv(environ, file)
         /\ hf_token' = environ'["HF_TOKEN"]
         /\ IF hf_token' # ""
              THEN /\ logged_in' = hf_token'
                   /\ net_calls' = net_calls \cup {"login"}
              ELSE UNCHANGED <<logged_in, net_calls>>
    /\ started' = "ready"
    /\ UNCHANGED <<variant, singletonVars, createVars, poolVars, runVars,
                   logVars, uiVars, pc, op, exc, agent, calls, returned,
                   printed, raised>>

\* examples/open_deep_research/run.py: a missing HF_TOKEN raises EnvironmentError
ImportSingleton ==
    /\ started = "import"
    /\ variant = "singleton"
    /\ \E file \in DotenvFiles :
         /\ environ' = load_dotenv(environ, file)
         /\ hf_token' = environ'["HF_TOKEN"]
         /\ IF hf_token' # ""
              THEN /\ logged_in' = hf_token'
                   /\ net_calls' = net_calls \cup {"login"}
                   /\ started' = "ready"
              ELSE /\ started' = "failed"
                   /\ UNCHANGED <<logged_in, net_calls>>
    /\ UNCHANGED <<variant, singletonVars, createVars, poolVars, runVars,
                   logVars, uiVars, pc, op, exc, agent, calls, returned,
                   printed, raised>>

\* run.py: a missing HF_TOKEN is logged as a warning and the import goes on;
\* no other thread exists yet, so the handler's emit is part of the step
ImportLogging ==
    /\ started = "import"
    /\ variant = "logging"
    /\ \E file \in DotenvFiles :
         /\ environ' = load_dotenv(environ, file)
         /\ hf_token' = environ'["HF_TOKEN"]
         /\ IF hf_token' # ""
              THEN /\ logged_in' = hf_token'
                   /\ net_calls' = net_calls \cup {"login"}
                   /\ agent_logs' = Append(agent_logs,
                          format(Record("INFO", "Logged into Hugging Face Hub.")))
              ELSE /\ agent_logs' = Append(agent_logs,
                          format(Record("WARNING",
                              "HF_TOKEN not found. Proceeding without authentication.")))
                   /\ UNCHANGED <<logged_in, net_calls>>
    /\ started' = "ready"
    /\ UNCHANGED <<variant, singletonVars, createVars, poolVars, runVars,
                   log_lock, entry, emit_ret, emitted, recorded, uiVars, pc, op,
                   exc,
                   agent, calls, returned, printed, raised>>

----------------------------------------------------------------------------
(* create_agent *)

\* an exception leaves the caller's operation
RaiseOut(t, e) ==
    /\ pc' = [pc EXCEPT ![t] = "idle"]
    /\ raised' = [raised EXCEPT ![t] = e]

\* a caller enters create_agent(model_id=m) from operation o
BeginCall(t, m, o, limit) ==
    /\ started = "ready"
    /\ pc[t] = "idle"
    /\ calls < limit
    /\ calls' = calls + 1
    /\ op' = [op EXCEPT ![t] = o]
    /\ arg' = [arg EXCEPT ![t] = m]
    /\ pc' = [pc EXCEPT ![t] = IF variant = "singleton" THEN "check" ELSE "enter"]
    /\ tc' = [tc EXCEPT ![t] = 0]
    /\ manager_agent' = [manager_agent EXCEPT ![t] = 0]
    /\ exc' = [exc EXCEPT ![t] = ""]
    /\ agent' = [agent EXCEPT ![t] = 0]
    /\ fut' = [fut EXCEPT ![t] = NoFuture]
    /\ outcome' = [outcome EXCEPT ![t] = NoResult]
    /\ invocations' = [invocations EXCEPT ![t] = 0]
    /\ answer' = [answer EXCEPT ![t] = ""]
    /\ returned' = [returned EXCEPT ![t] = ""]
    /\ printed' = [printed EXCEPT ![t] = <<>>]
    /\ raised' = [raised EXCEPT ![t] = ""]
    /\ recorded' = [recorded EXCEPT ![t] = <<>>]
    /\ logs' = [logs EXCEPT ![t] = <<>>]
    /\ fresh' = [fresh EXCEPT ![t] = TRUE]
    /\ UNCHANGED <<moduleVars, environ, net_calls, singletonVars, objects,
                   conns, executor, work_queue, agent_logs, log_lock, entry,
                   emit_ret, emitted, app_agent, status_box, last_keys>>

\* main: args = parse_args(); agent = create_agent(model_id=args.model_id)
main(t, m) == BeginCall(t, m, "main", MaxCalls)

\* the same, entered only while no other caller is inside create_agent
InCreate == {"check", "enter", "build", "assign", "exit", "return"}

SeqMain(t, m) ==
    /\ \A u \in Callers : pc[u] \notin InCreate
    /\ main(t, m)

\* create_agent without the reuse test: every call constructs
Check_NoReuse(t) ==
    /\ pc[t] = "check"
    /\ pc' = [pc EXCEPT ![t] = "enter"]
    /\ UNCHANGED <<moduleVars, environ, net_calls, singletonVars, createVars,
                   poolVars, runVars, logVars, uiVars, op, exc, agent, calls,
                   returned, printed, raised>>

\* if agent_instance is None:
Check(t) ==
    /\ pc[t] = "check"
    /\ pc' = [pc EXCEPT ![t] = IF agent_instance = 0 THEN "enter" ELSE "return"]
    /\ UNCHANGED <<moduleVars, environ, net_calls, singletonVars, createVars,
                   poolVars, runVars, logVars, uiVars, op, exc, agent, calls,
                   returned, printed, raised>>

\* with ToolCollection.from_mcp(server_parameters) as tool_collection:
Enter(t) ==
    /\ pc[t] = "enter"
    /\ net_calls' = net_calls \cup {"tool_server"}
    /\ \/ /\ conns' = Append(conns, "open")
          /\ tc' = [tc EXCEPT ![t] = Len(conns) + 1]
          /\ pc' = [pc EXCEPT ![t] = "build"]
          /\ UNCHANGED raised
       \/ /\ \E e \in ConnectErrors : RaiseOut(t, e)
          /\ UNCHANGED <<conns, tc>>
    /\ UNCHANGED <<moduleVars, environ, singletonVars, objects, arg, manager_agent,
                   poolVars, runVars, logVars, uiVars, op, exc, agent, calls,
                   returned, printed>>

\* what the constructors called by create_agent are given and look up
Config(t) ==
    [model_id |-> arg[t],
     reasoning_effort |-> IF arg[t] = "o1" THEN "high" ELSE "unset",
     verbosity_level |-> IF variant = "singleton" THEN 1 ELSE 2,
     conn |-> tc[t],
     env |-> environ]

\* the body of the with block up to manager_agent = CodeAgent(...)
Build(t) ==
    /\ pc[t] = "build"
    /\ \/ /\ objects' = Append(objects, Config(t))
          /\ manager_agent' = [manager_agent EXCEPT ![t] = Len(objects) + 1]
          /\ pc' = [pc EXCEPT ![t] = IF variant = "singleton" THEN "assign" ELSE "exit"]
          /\ UNCHANGED exc
       \/ /\ \E e \in BuildErrors : exc' = [exc EXCEPT ![t] = e]
          /\ pc' = [pc EXCEPT ![t] = "exit"]
          /\ UNCHANGED <<objects, manager_agent>>
    /\ UNCHANGED <<moduleVars, environ, net_calls, singletonVars, conns, arg,
                   tc, poolVars, runVars, logVars, uiVars, op, agent, calls,
                   returned, printed, raised>>

\* agent_instance = manager_agent
Assign(t) ==
    /\ pc[t] = "assign"
    /\ agent_instance' = manager_agent[t]
    /\ first' = IF first = 0 THEN manager_agent[t] ELSE first
    /\ first_arg' = IF first = 0 THEN arg[t] ELSE first_arg
    /\ pc' = [pc EXCEPT ![t] = "exit"]
    /\ UNCHANGED <<moduleVars, environ, net_calls, createVars, poolVars,
                   runVars, logVars, uiVars, op, exc, agent, calls, returned,
                   printed, raised>>

\* where the caller goes on once create_agent has returned
AfterCreate(t) ==
    IF op[t] = "main"
      THEN IF variant = "singleton" THEN "submit" ELSE "run"
      ELSE "idle"

\* leaving the with block (closing tells whether __exit__ closes the
\* connection): an exception in flight goes on to the caller, and run.py's
\* `return manager_agent` completes.  The frame's locals die with it in the
\* logging variant; the singleton variant still has `return agent_instance`.
LeaveWith(t, closing) ==
    /\ pc[t] = "exit"
    /\ conns' = IF closing THEN [conns EXCEPT ![tc[t]] = "closed"] ELSE conns
    /\ tc' = [tc EXCEPT ![t] = 0]
    /\ manager_agent' = [manager_agent EXCEPT ![t] = 0]
    /\ exc' = [exc EXCEPT ![t] = ""]
    /\ IF exc[t] # ""
         THEN /\ RaiseOut(t, exc[t])
              /\ UNCHANGED <<agent, app_agent, returned>>
         ELSE IF variant = "singleton"
           THEN /\ pc' = [pc EXCEPT ![t] = "return"]
                /\ UNCHANGED <<agent, app_agent, returned, raised>>
           ELSE /\ agent' = [agent EXCEPT ![t] = manager_agent[t]]
                /\ app_agent' = IF op[t] = "build_app" THEN manager_agent[t] ELSE app_agent
                /\ returned' = [returned EXCEPT ![t] = IF op[t] = "build_app" THEN "build_app" ELSE @]
                /\ pc' = [pc EXCEPT ![t] = AfterCreate(t)]
                /\ UNCHANGED raised
    /\ UNCHANGED <<moduleVars, environ, net_calls, singletonVars, objects, arg,
                   poolVars, runVars, logVars, logs, status_box, last_keys,
                   fresh, op, calls, printed>>

\* a construction written without `with`, closing only on the normal path
Exit_Leak(t) == LeaveWith(t, exc[t] = "")

Exit(t) == LeaveWith(t, TRUE)

\* return agent_instance
Return(t) ==
    /\ pc[t] = "return"
    /\ agent' = [agent EXCEPT ![t] = agent_instance]
    /\ pc' = [pc EXCEPT ![t] = AfterCreate(t)]
    /\ UNCHANGED <<moduleVars, environ, net_calls, singletonVars, createVars,
                   poolVars, runVars, logVars, uiVars, op, exc, calls,
                   returned, printed, raised>>

----------------------------------------------------------------------------
(* agent.run, directly and through the executor *)

\* what one agent.run call can do: return an answer or raise
RunResults ==
    [kind : {"result"}, value : Answers] \cup [kind : {"exception"}, value : RunErrors]

\* work items of executor e that no worker has taken, oldest first
Queued(e) == SelectSeq(work_queue, LAMBDA j : executor[j] = e)

\* worker threads of executor e that are running a work item
Busy(e) == {j \in Callers : executor[j] = e /\ fut[j].state = "RUNNING"}

\* with ThreadPoolExecutor(max_workers=4) as executor:
\*     future = executor.submit(agent.run, args.question)
Submit(t) ==
    /\ pc[t] = "submit"
    /\ work_queue' = Append(work_queue, t)
    /\ fut' = [fut EXCEPT ![t] = [state |-> "PENDING", kind |-> "none", value |-> ""]]
    /\ pc' = [pc EXCEPT ![t] = "result"]
    /\ UNCHANGED <<moduleVars, environ, net_calls, singletonVars, createVars,
                   executor, runVars, logVars, uiVars, op, exc, agent, calls,
                   returned, printed, raised>>

\* a worker thread of the pool takes the oldest work item and calls agent.run
WorkerTake(i) ==
    /\ fut[i].state = "PENDING"
    /\ Queued(executor[i]) # <<>>
    /\ Head(Queued(executor[i])) = i
    /\ Cardinality(Busy(executor[i])) < max_workers
    /\ work_queue' = SelectSeq(work_queue, LAMBDA j : j # i)
    /\ fut' = [fut EXCEPT ![i].state = "RUNNING"]
    /\ invocations' = [invocations EXCEPT ![i] = @ + 1]
    /\ net_calls' = net_calls \cup {"model"}
    /\ UNCHANGED <<moduleVars, environ, singletonVars, createVars, executor,
                   outcome, answer, logVars, uiVars, pc, op, exc, agent, calls,
                   returned, printed, raised>>

\* a worker that sets only results: an exception ends the worker thread and
\* its future stays RUNNING
WorkerFinish_Drop(i) ==
    /\ fut[i].state = "RUNNING"
    /\ outcome[i].kind # "exception"
    /\ \E r \in RunResults :
         /\ outcome' = [outcome EXCEPT ![i] = r]
         /\ fut' = IF r.kind = "result"
                     THEN [fut EXCEPT ![i] = [state |-> "FINISHED", kind |-> r.kind,
                                              value |-> r.value]]
                     ELSE fut
    /\ UNCHANGED <<moduleVars, environ, net_calls, singletonVars, createVars,
                   executor, work_queue, invocations, answer, logVars, uiVars,
                   pc, op, exc, agent, calls, returned, printed, raised>>

\* agent.run ends in the worker: the future takes its result or its exception
WorkerFinish(i) ==
    /\ fut[i].state = "RUNNING"
    /\ \E r \in RunResults :
         /\ outcome' = [outcome EXCEPT ![i] = r]
         /\ fut' = [fut EXCEPT ![i] = [state |-> "FINISHED", kind |-> r.kind,
                                       value |-> r.value]]
    /\ UNCHANGED <<moduleVars, environ, net_calls, singletonVars, createVars,
                   executor, work_queue, invocations, answer, logVars, uiVars,
                   pc, op, exc, agent, calls, returned, printed, raised>>

\* a future.result() wrapped in `except Exception: answer = None`
Result_Swallow(t) ==
    /\ pc[t] = "result"
    /\ fut[t].state = "FINISHED"
    /\ answer' = [answer EXCEPT ![t] = IF fut[t].kind = "result" THEN fut[t].value ELSE "None"]
    /\ pc' = [pc EXCEPT ![t] = "print"]
    /\ UNCHANGED <<moduleVars, environ, net_calls, singletonVars, createVars,
                   poolVars, outcome, invocations, logVars, uiVars, op, exc,
                   agent, calls, returned, printed, raised>>

\* answer = future.result()
Result(t) ==
    /\ pc[t] = "result"
    /\ fut[t].state = "FINISHED"
    /\ IF fut[t].kind = "result"
         THEN /\ answer' = [answer EXCEPT ![t] = fut[t].value]
              /\ pc' = [pc EXCEPT ![t] = "print"]
              /\ UNCHANGED raised
         ELSE /\ RaiseOut(t, fut[t].value)
              /\ UNCHANGED answer
    /\ UNCHANGED <<moduleVars, environ, net_calls, singletonVars, createVars,
                   poolVars, outcome, invocations, logVars, uiVars, op, exc,
                   agent, calls, returned, printed>>

\* answer = agent.run(...) called in the caller's own thread
RunStart(t) ==
    /\ pc[t] = "run"
    /\ invocations' = [invocations EXCEPT ![t] = @ + 1]
    /\ net_calls' = net_calls \cup {"model"}
    /\ pc' = [pc EXCEPT ![t] = "running"]
    /\ UNCHANGED <<moduleVars, environ, singletonVars, createVars, poolVars,
                   outcome, answer, logVars, uiVars, op, exc, agent, calls,
                   returned, printed, raised>>

RunEnd(t) ==
    /\ pc[t] = "running"
    /\ \E r \in RunResults :
         /\ outcome' = [outcome EXCEPT ![t] = r]
         /\ IF r.kind = "result"
              THEN /\ answer' = [answer EXCEPT ![t] = r.value]
                   /\ pc' = [pc EXCEPT ![t] = IF op[t] = "main" THEN "print" ELSE "lock"]
                   /\ UNCHANGED raised
              ELSE /\ RaiseOut(t, r.value)
                   /\ UNCHANGED answer
    /\ UNCHANGED <<moduleVars, environ, net_calls, singletonVars, createVars,
                   poolVars, invocations, logVars, uiVars, op, exc, agent,
                   calls, returned, printed>>

\* print(f"Got this answer: {answer}")
PrintAnswer(t) ==
    /\ pc[t] = "print"
    /\ printed' = [printed EXCEPT ![t] = <<"Got this answer: ", answer[t]>>]
    /\ returned' = [returned EXCEPT ![t] = "main"]
    /\ pc' = [pc EXCEPT ![t] = "idle"]
    /\ UNCHANGED <<moduleVars, environ, net_calls, singletonVars, createVars,
                   poolVars, runVars, logVars, uiVars, op, exc, agent, calls,
                   raised>>

----------------------------------------------------------------------------
(* ListHandler.emit: the logger calls made while create_agent builds and    *)
(* while agent.run runs in the logging variant                              *)

\* the message of the n-th record, logged by caller t's operation
Message(t, n) == op[t] \o " " \o ToString(t) \o "." \o ToString(n)

\* with log_lock:
EmitAcquire(t) ==
    /\ variant = "logging"
    /\ pc[t] \in {"build", "running"}
    /\ emitted < MaxEmit
    /\ log_lock = 0
    /\ log_lock' = t
    /\ emitted' = emitted + 1
    /\ emit_ret' = [emit_ret EXCEPT ![t] = pc[t]]
    /\ pc' = [pc EXCEPT ![t] = "format"]
    /\ UNCHANGED <<moduleVars, environ, net_calls, singletonVars, createVars,
                   poolVars, runVars, agent_logs, entry, recorded, uiVars, op,
                   exc, agent, calls, returned, printed, raised>>

\* log_entry = self.format(record)
EmitFormat(t) ==
    /\ pc[t] = "format"
    /\ entry' = [entry EXCEPT ![t] =
           format(Record("INFO", Message(t, emitted)))]
    /\ pc' = [pc EXCEPT ![t] = "append"]
    /\ UNCHANGED <<moduleVars, environ, net_calls, singletonVars, createVars,
                   poolVars, runVars, agent_logs, log_lock, emit_ret, emitted,
                   recorded, uiVars, op, exc, agent, calls, returned, printed,
                   raised>>

\* self.log_list.append(log_entry), and the with block releases log_lock
EmitAppend(t) ==
    /\ pc[t] = "append"
    /\ agent_logs' = Append(agent_logs, entry[t])
    /\ recorded' = [recorded EXCEPT ![t] = Append(@, entry[t])]
    /\ log_lock' = 0
    /\ pc' = [pc EXCEPT ![t] = emit_ret[t]]
    /\ UNCHANGED <<moduleVars, environ, net_calls, singletonVars, createVars,
                   poolVars, runVars, entry, emit_ret, emitted, uiVars, op, exc,
                   agent, calls, returned, printed, raised>>

----------------------------------------------------------------------------
(* app.py *)

\* build_app: agent = create_agent(), on the thread that builds the interface,
\* so one construction at a time
build_app(t) ==
    /\ \A u \in Callers : pc[u] \notin InCreate
    /\ BeginCall(t, "o1", "build_app", MaxOps)

\* what the three password fields may hold when update_btn is clicked
FieldInputs == {<<"sk-A", "sp-A", "hf-A">>, <<"sk-B", "", "hf-B">>}

\* the update_btn click: the handler is given `given` and stores `stored`
ClickUpdate(t, given, stored) ==
    /\ app_agent # 0
    /\ pc[t] = "idle"
    /\ calls < MaxOps
    /\ calls' = calls + 1
    /\ op' = [op EXCEPT ![t] = "set_keys"]
    /\ environ' = [environ EXCEPT !["OPENAI_API_KEY"] = stored[1],
                                  !["SERPER_API_KEY"] = stored[2],
                                  !["HF_TOKEN"] = stored[3]]
    /\ status_box' = ConfirmMsg
    /\ returned' = [returned EXCEPT ![t] = "set_keys"]
    /\ raised' = [raised EXCEPT ![t] = ""]
    /\ last_keys' = [NoKeys EXCEPT !["OPENAI_API_KEY"] = given[1],
                                   !["SERPER_API_KEY"] = given[2],
                                   !["HF_TOKEN"] = given[3]]
    /\ fresh' = [u \in Callers |-> FALSE]
    /\ UNCHANGED <<moduleVars, net_calls, singletonVars, createVars, poolVars,
                   runVars, logVars, app_agent, logs, pc, exc, agent, printed>>

\* set_keys with two assignments exchanged
set_keys_Swapped(t, openai_api_key, serper_api_key, token) ==
    ClickUpdate(t, <<openai_api_key, serper_api_key, token>>,
                   <<serper_api_key, openai_api_key, token>>)

\* set_keys(openai_api_key, serper_api_key, hf_token), wired to update_btn
set_keys(t, openai_api_key, serper_api_key, token) ==
    ClickUpdate(t, <<openai_api_key, serper_api_key, token>>,
                   <<openai_api_key, serper_api_key, token>>)

\* get_answer(question), wired to submit_btn; `agent` is build_app's
get_answer(t) ==
    /\ app_agent # 0
    /\ pc[t] = "idle"
    /\ calls < MaxOps
    /\ calls' = calls + 1
    /\ op' = [op EXCEPT ![t] = "get_answer"]
    /\ agent' = [agent EXCEPT ![t] = app_agent]
    /\ outcome' = [outcome EXCEPT ![t] = NoResult]
    /\ invocations' = [invocations EXCEPT ![t] = 0]
    /\ answer' = [answer EXCEPT ![t] = ""]
    /\ returned' = [returned EXCEPT ![t] = ""]
    /\ raised' = [raised EXCEPT ![t] = ""]
    /\ recorded' = [recorded EXCEPT ![t] = <<>>]
    /\ logs' = [logs EXCEPT ![t] = <<>>]
    /\ pc' = [pc EXCEPT ![t] = "clear"]
    /\ UNCHANGED <<moduleVars, environ, net_calls, singletonVars, createVars,
                   poolVars, agent_logs, log_lock, entry, emit_ret, emitted,
                   app_agent, status_box, last_keys, fresh, exc, printed>>

\* agent_logs.clear()  # Clear previous logs
Clear(t) ==
    /\ pc[t] = "clear"
    /\ agent_logs' = <<>>
    /\ pc' = [pc EXCEPT ![t] = "run"]
    /\ UNCHANGED <<moduleVars, environ, net_calls, singletonVars, createVars,
                   poolVars, runVars, log_lock, entry, emit_ret, emitted,
                   recorded, uiVars, op, exc, agent, calls, returned, printed,
                   raised>>

\* with log_lock:
ReadAcquire(t) ==
    /\ pc[t] = "lock"
    /\ log_lock = 0
    /\ log_lock' = t
    /\ pc' = [pc EXCEPT ![t] = "read"]
    /\ UNCHANGED <<moduleVars, environ, net_calls, singletonVars, createVars,
                   poolVars, runVars, agent_logs, entry, emit_ret, emitted,
                   recorded, uiVars, op, exc, agent, calls, returned, printed,
                   raised>>

\* logs = "\n".join(agent_logs); the with block releases log_lock;
\* return answer, logs
Read(t) ==
    /\ pc[t] = "read"
    /\ logs' = [logs EXCEPT ![t] = join(agent_logs)]
    /\ log_lock' = 0
    /\ returned' = [returned EXCEPT ![t] = "get_answer"]
    /\ pc' = [pc EXCEPT ![t] = "idle"]
    /\ UNCHANGED <<moduleVars, environ, net_calls, singletonVars, createVars,
                   poolVars, runVars, agent_logs, entry, emit_ret, emitted,
                   recorded, app_agent, status_box, last_keys, fresh, op, exc,
                   agent, calls, printed, raised>>

----------------------------------------------------------------------------
(* Specifications *)

\* the environment the process is started in
StartEnvs ==
    {[v \in AllVars |-> IF v = "HF_TOKEN" THEN h ELSE "k1"] : h \in {"", "k1"}}

InitCallers(callers) ==
    /\ started = "import"
    /\ environ \in StartEnvs
    /\ hf_token = ""
    /\ logged_in = ""
    /\ net_calls = {}
    /\ agent_instance = 0
    /\ objects = <<>>
    /\ conns = <<>>
    /\ pc = [t \in callers |-> "idle"]
    /\ op = [t \in callers |-> ""]
    /\ arg = [t \in callers |-> "o1"]
    /\ tc = [t \in callers |-> 0]
    /\ manager_agent = [t \in callers |-> 0]
    /\ exc = [t \in callers |-> ""]
    /\ agent = [t \in callers |-> 0]
    /\ calls = 0
    /\ executor = [t \in callers |-> t]
    /\ work_queue = <<>>
    /\ fut = [t \in callers |-> NoFuture]
    /\ outcome = [t \in callers |-> NoResult]
    /\ invocations = [t \in callers |-> 0]
    /\ answer = [t \in callers |-> ""]
    /\ returned = [t \in callers |-> ""]
    /\ printed = [t \in callers |-> <<>>]
    /\ raised = [t \in callers |-> ""]
    /\ first = 0
    /\ first_arg = ""
    /\ app_agent = 0
    /\ agent_logs = <<>>
    /\ log_lock = 0
    /\ emitted = 0
    /\ entry = [t \in callers |-> <<>>]
    /\ emit_ret = [t \in callers |-> ""]
    /\ recorded = [t \in callers |-> <<>>]
    /\ logs = [t \in callers |-> <<>>]
    /\ status_box = "*(No keys set yet)*"
    /\ last_keys = NoKeys
    /\ fresh = [t \in callers |-> FALSE]

\* either run.py is started and main is called from NumThreads threads
Init ==
    /\ variant \in {"singleton", "logging"}
    /\ InitCallers(1..NumThreads)

Next ==
    \/ ImportSingleton
    \/ ImportLogging
    \/ \E t \in Callers, m \in ModelIds : main(t, m)
    \/ \E t \in Callers : Check(t)
    \/ \E t \in Callers : Enter(t)
    \/ \E t \in Callers : Build(t)
    \/ \E t \in Callers : Assign(t)
    \/ \E t \in Callers : Exit(t)
    \/ \E t \in Callers : Return(t)
    \/ \E t \in Callers : Submit(t)
    \/ \E t \in Callers : WorkerTake(t)
    \/ \E t \in Callers : WorkerFinish(t)
    \/ \E t \in Callers : Result(t)
    \/ \E t \in Callers : RunStart(t)
    \/ \E t \in Callers : RunEnd(t)
    \/ \E t \in Callers : PrintAnswer(t)

\* main called from any thread at any time: create_agent calls may overlap
Spec == Init /\ [][Next]_vars

\* the same program with the create_agent calls made one after another, as
\* main and build_app make them
SeqNext ==
    \/ ImportSingleton
    \/ ImportLogging
    \/ \E t \in Callers, m \in ModelIds : SeqMain(t, m)
    \/ \E t \in Callers : Check(t)
    \/ \E t \in Callers : Enter(t)
    \/ \E t \in Callers : Build(t)
    \/ \E t \in Callers : Assign(t)
    \/ \E t \in Callers : Exit(t)
    \/ \E t \in Callers : Return(t)
    \/ \E t \in Callers : Submit(t)
    \/ \E t \in Callers : WorkerTake(t)
    \/ \E t \in Callers : WorkerFinish(t)
    \/ \E t \in Callers : Result(t)
    \/ \E t \in Callers : RunStart(t)
    \/ \E t \in Callers : RunEnd(t)
    \/ \E t \in Callers : PrintAnswer(t)

SeqSpec == Init /\ [][SeqNext]_vars

\* app.py: the Gradio shell over run.py, its handlers called from NumUsers threads
UIInit ==
    /\ variant = "logging"
    /\ InitCallers(1..NumUsers)

UINext ==
    \/ ImportLogging
    \/ \E t \in Callers : build_app(t)
    \/ \E t \in Callers : Enter(t)
    \/ \E t \in Callers : Build(t)
    \/ \E t \in Callers : Exit(t)
    \/ \E t \in Callers, f \in FieldInputs : set_keys(t, f[1], f[2], f[3])
    \/ \E t \in Callers : get_answer(t)
    \/ \E t \in Callers : Clear(t)
    \/ \E t \in Callers : RunStart(t)
    \/ \E t \in Callers : RunEnd(t)
    \/ \E t \in Callers : EmitAcquire(t)
    \/ \E t \in Callers : EmitFormat(t)
    \/ \E t \in Callers : EmitAppend(t)
    \/ \E t \in Callers : ReadAcquire(t)
    \/ \E t \in Callers : Read(t)

UISpec == UIInit /\ [][UINext]_vars

\* one executor shared by NumTasks callers that hold the singleton handle and
\* are about to submit agent.run; each then waits in future.result()
PoolInit ==
    /\ variant = "singleton"
    /\ started = "ready"
    /\ environ = [v \in AllVars |-> "k1"]
    /\ hf_token = "k1"
    /\ logged_in = "k1"
    /\ net_calls = {"login", "tool_server"}
    /\ agent_instance = 1
    /\ objects = <<[model_id |-> "o1", reasoning_effort |-> "high",
                    verbosity_level |-> 1, conn |-> 1, env |-> environ]>>
    /\ conns = <<"closed">>
    /\ pc = [t \in 1..NumTasks |-> "submit"]
    /\ op = [t \in 1..NumTasks |-> "main"]
    /\ arg = [t \in 1..NumTasks |-> "o1"]
    /\ tc = [t \in 1..NumTasks |-> 0]
    /\ manager_agent = [t \in 1..NumTasks |-> 0]
    /\ exc = [t \in 1..NumTasks |-> ""]
    /\ agent = [t \in 1..NumTasks |-> 1]
    /\ calls = 0
    /\ executor = [t \in 1..NumTasks |-> 1]
    /\ work_queue = <<>>
    /\ fut = [t \in 1..NumTasks |-> NoFuture]
    /\ outcome = [t \in 1..NumTasks |-> NoResult]
    /\ invocations = [t \in 1..NumTasks |-> 0]
    /\ answer = [t \in 1..NumTasks |-> ""]
    /\ returned = [t \in 1..NumTasks |-> ""]
    /\ printed = [t \in 1..NumTasks |-> <<>>]
    /\ raised = [t \in 1..NumTasks |-> ""]
    /\ first = 1
    /\ first_arg = "o1"
    /\ app_agent = 0
    /\ agent_logs = <<>>
    /\ log_lock = 0
    /\ emitted = 0
    /\ entry = [t \in 1..NumTasks |-> <<>>]
    /\ emit_ret = [t \in 1..NumTasks |-> ""]
    /\ recorded = [t \in 1..NumTasks |-> <<>>]
    /\ logs = [t \in 1..NumTasks |-> <<>>]
    /\ status_box = "*(No keys set yet)*"
    /\ last_keys = NoKeys
    /\ fresh = [t \in 1..NumTasks |-> FALSE]

PoolNext ==
    \/ \E i \in Callers : Submit(i)
    \/ \E i \in Callers : WorkerTake(i)
    \/ \E i \in Callers : WorkerFinish(i)

\* an idle worker thread takes a queued work item, and every agent.run call ends
PoolFairness ==
    \A i \in 1..NumTasks : WF_vars(WorkerTake(i)) /\ WF_vars(WorkerFinish(i))

PoolSpec == PoolInit /\ [][PoolNext]_vars /\ PoolFairness

----------------------------------------------------------------------------
(* Properties *)

Range(q) == {q[k] : k \in 1..Len(q)}

\* the three strings of a set_keys call are all non-empty
NonEmpty(keys) == \A v \in EnvVars : keys[v] # ""

\* caller t is past create_agent with a handle to run
Running(t) == pc[t] = "running" \/ fut[t].state = "RUNNING"

(* C1: in the singleton variant, with create_agent called one call after
   another, once a construction has been assigned to agent_instance every
   call returns that handle, which carries the model_id of the call that
   built it, whatever model_id the later calls pass. *)
C1_Reuse ==
    first # 0 =>
        /\ agent_instance = first
        /\ objects[first].model_id = first_arg
        /\ \A t \in Callers : agent[t] # 0 => agent[t] = first

\* a later call that asked for another model has been handed the first handle
C1_Witness ==
    /\ variant = "singleton"
    /\ first # 0
    /\ \E t \in Callers :
         /\ pc[t] = "submit"
         /\ agent[t] = first
         /\ arg[t] # first_arg

(* C2: in the singleton variant at most one manager agent is ever
   constructed and all callers of create_agent receive the same handle,
   however their calls interleave. *)
C2_AtMostOnce ==
    variant = "singleton" =>
        /\ Len(objects) <= 1
        /\ \A t, u \in Callers :
             (agent[t] # 0 /\ agent[u] # 0) => agent[t] = agent[u]

(* C3: get_answer empties agent_logs while holding log_lock and the step
   leaves the buffer empty; an emit after it appends exactly one line; and
   the next read returns exactly the lines appended since. *)
C3_DrainUnderLock ==
    [][\A t \in Callers :
         /\ (pc[t] = "clear" /\ pc'[t] = "run") =>
                (log_lock = t /\ agent_logs' = <<>>)
         /\ (pc[t] = "append" /\ pc'[t] # "append") =>
                agent_logs' = Append(agent_logs, entry[t])
         /\ (pc[t] = "read" /\ pc'[t] = "idle") =>
                logs'[t] = join(agent_logs)]_vars

(* C4: a caller that is at the clear, the append or the read of agent_logs
   holds log_lock, so no two callers are at an access at the same time. *)
C4_LockedAccess ==
    \A t \in Callers : pc[t] \in {"clear", "append", "read"} => log_lock = t

\* the future of invocation i holds what its agent.run call did
Resolved(i) ==
    /\ fut[i].state = "FINISHED"
    /\ fut[i].kind \in {"result", "exception"}
    /\ fut[i].kind = outcome[i].kind
    /\ fut[i].value = outcome[i].value

(* C5: once NumTasks invocations have been submitted to the pool of
   max_workers threads, eventually every one of their futures is FINISHED
   and holds what its agent.run call did, the answer or the exception. *)
C5_AllResolve ==
    (\A i \in 1..NumTasks : fut[i].state # "NONE") ~>
        (\A i \in 1..NumTasks : Resolved(i))

\* more invocations than workers have all resolved, some of them to an exception
C5_Witness ==
    /\ NumTasks >= max_workers
    /\ \A i \in Callers : fut[i].state = "FINISHED"
    /\ \E i \in Callers : fut[i].kind = "exception"
    /\ \E i \in Callers : fut[i].kind = "result"

(* C6: agent.run is called at most once per question; main prints
   "Got this answer: <answer>" exactly when that call returned, and prints
   the value it returned; when the call raised, the exception that leaves
   main is the one agent.run raised. *)
C6_Propagation ==
    \A t \in Callers :
        /\ invocations[t] <= 1
        /\ printed[t] # <<>> =>
               /\ outcome[t].kind = "result"
               /\ printed[t] = <<"Got this answer: ", outcome[t].value>>
        /\ (op[t] = "main" /\ pc[t] = "idle" /\ outcome[t].kind = "result") =>
               printed[t] # <<>>
        /\ (pc[t] = "idle" /\ outcome[t].kind = "exception") =>
               (raised[t] = outcome[t].value /\ printed[t] = <<>>)
        /\ (op[t] = "main" /\ pc[t] = "idle" /\ raised[t] # "" /\ invocations[t] = 1) =>
               (outcome[t].kind = "exception" /\ raised[t] = outcome[t].value)

\* an exception raised by agent.run in a pool worker has left main
C6_Witness ==
    \E t \in Callers :
        /\ variant = "singleton"
        /\ pc[t] = "idle"
        /\ fut[t].kind = "exception"
        /\ raised[t] = "NetworkError"
        /\ printed[t] = <<>>

(* C7 as stated: whenever HF_TOKEN is missing once the module is imported,
   the import has failed, no network call was attempted and no agent
   exists. *)
C7_Original ==
    (started # "import" /\ hf_token = "") =>
        /\ started = "failed"
        /\ net_calls = {}
        /\ objects = <<>>

(* C7 amended: the singleton variant fails the import on a missing HF_TOKEN
   before any network call, a connection or an agent; the logging variant
   goes on without login. *)
C7_Amended ==
    (started # "import" /\ hf_token = "") =>
        IF variant = "singleton"
          THEN /\ started = "failed"
               /\ net_calls = {}
               /\ conns = <<>>
               /\ objects = <<>>
          ELSE /\ started = "ready"
               /\ logged_in = ""
               /\ "login" \notin net_calls

\* the singleton variant was started without HF_TOKEN
C7_Witness ==
    /\ variant = "singleton"
    /\ started = "failed"
    /\ environ["HF_TOKEN"] = ""

(* C8: while a get_answer call is between its clear and its read, every
   line its question has recorded is still in agent_logs, and what the call
   returns is exactly those lines. *)
C8_LogsOfQuestion ==
    \A t \in Callers :
        /\ (op[t] = "get_answer" /\ pc[t] \in {"run", "running", "format", "append", "lock", "read"}) =>
               Range(recorded[t]) \subseteq Range(agent_logs)
        /\ (op[t] = "get_answer" /\ returned[t] = "get_answer") =>
               logs[t] = join(recorded[t])

(* C9: a set_keys call (the one step that starts an operation and leaves
   every caller where it is) with three non-empty strings stores them in
   OPENAI_API_KEY, SERPER_API_KEY and HF_TOKEN, changes no other variable,
   shows the confirmation message and leaves every constructed agent and
   build_app's agent as they were; an agent built by a create_agent call
   that began after it sees those three values. *)
C9_SetKeys ==
    [][/\ (calls' = calls + 1 /\ pc' = pc /\ NonEmpty(last_keys')) =>
              /\ \A v \in EnvVars : environ'[v] = last_keys'[v]
              /\ \A v \in AllVars \ EnvVars : environ'[v] = environ[v]
              /\ status_box' = ConfirmMsg
              /\ objects' = objects
              /\ app_agent' = app_agent
              /\ agent' = agent
              /\ hf_token' = hf_token
       /\ \A t \in Callers :
              (/\ status_box = ConfirmMsg
               /\ NonEmpty(last_keys)
               /\ fresh[t]
               /\ manager_agent[t] = 0
               /\ manager_agent'[t] # 0) =>
                  \A v \in EnvVars :
                      objects'[manager_agent'[t]].env[v] = last_keys[v]]_vars

\* an agent has been rebuilt after a set_keys call with three non-empty strings
C9_Witness ==
    \E t \in Callers :
        /\ status_box = ConfirmMsg
        /\ NonEmpty(last_keys)
        /\ fresh[t]
        /\ op[t] = "build_app"
        /\ returned[t] = "build_app"
        /\ app_agent = agent[t]
        /\ app_agent > 1
        /\ objects[app_agent].env["HF_TOKEN"] = "hf-A"
        /\ hf_token # "hf-A"

(* C10: a tool-server connection is open only inside the with block of the
   create_agent call that opened it, so none survives a return or a raise,
   and whenever agent.run is running the connection of the agent it runs is
   closed. *)
C10_ConnectionScoped ==
    /\ \A c \in 1..Len(conns) :
         conns[c] = "open" =>
             \E t \in Callers : tc[t] = c /\ pc[t] \in {"build", "assign", "exit"}
    /\ \A t \in Callers :
         Running(t) =>
             /\ agent[t] # 0
             /\ conns[objects[agent[t]].conn] = "closed"

\* one construction has failed inside the with block, a later one is being run
C10_Witness ==
    \E t, u \in Callers :
        /\ Running(t)
        /\ raised[u] \in BuildErrors
        /\ Len(conns) >= 2
        /\ \A c \in 1..Len(conns) : conns[c] = "closed"

\* handle h is a manager agent whose constructors have all run: its model,
\* its reasoning effort and its tool connection are those create_agent gives
Constructed(h) ==
    /\ h \in 1..Len(objects)
    /\ objects[h].model_id \in ModelIds
    /\ objects[h].reasoning_effort =
           (IF objects[h].model_id = "o1" THEN "high" ELSE "unset")
    /\ objects[h].conn \in 1..Len(conns)

\* agent_instance, and every handle a caller has received, is None or a
\* fully constructed manager agent
C11_NoPartialHandle ==
    variant = "singleton" =>
        /\ agent_instance = 0 \/ Constructed(agent_instance)
        /\ \A t \in Callers : agent[t] = 0 \/ Constructed(agent[t])

\* agent_instance changes only in the last statement of the with block, to
\* the manager agent the assigning caller has just constructed
C11_AssignedLast ==
    [][agent_instance' # agent_instance =>
          \E t \in Callers :
              /\ pc[t] = "assign"
              /\ pc'[t] = "exit"
              /\ Constructed(manager_agent[t])
              /\ agent_instance' = manager_agent[t]]_vars

\* the step in which caller t's create_agent call ends by raising
ConstructionRaises(t) ==
    /\ pc[t] \in {"enter", "exit"}
    /\ pc'[t] = "idle"
    /\ raised'[t] \in ConnectErrors \cup BuildErrors

\* a construction that raises leaves agent_instance None, and a call that
\* finds it None goes on to construct
C11_RaiseLeavesNone ==
    [][\A t \in Callers :
          /\ ConstructionRaises(t) => agent_instance' = 0
          /\ (pc[t] = "check" /\ pc'[t] # "check" /\ agent_instance = 0) =>
                 pc'[t] = "enter"]_vars

\* C11: in the singleton variant agent_instance is always None or a fully
\* constructed manager agent; it is assigned only as the last construction
\* step, so no caller, racing or not, receives a partially constructed
\* handle; and a construction that raises leaves agent_instance None, so
\* that a later create_agent call constructs again.
C11_WholeOrNone ==
    /\ []C11_NoPartialHandle
    /\ C11_AssignedLast
    /\ C11_RaiseLeavesNone

=============================================================================
